---- MODULE Spec2Model ----
(***************************************************************************)
(* Price optimisation service (001_Back): the symbolic profit model built  *)
(* at import (service.py), optimize_with_sympy, fit_linear and the Flask   *)
(* handlers /optimize and /fit (app.py).                                   *)
(*                                                                         *)
(* Numbers.  optimize_with_sympy gets its numbers from SymPy expressions:  *)
(* there a number is an exact rational <<n, d>> in lowest terms with       *)
(* d > 0, and +, -, * and / are the exact operations (<<0, 0>> marks a     *)
(* division by zero), so that half of the model states the real-number     *)
(* semantics of the code.  fit_linear is plain float arithmetic whose      *)
(* guards compare computed values with 1e-12 and 0: there a number is a    *)
(* Python float (binary64) and every operation rounds as the float         *)
(* operation does.                                                         *)
(*                                                                         *)
(* Units.  The tolerance of optimize_with_sympy is 1e-12.  To reach both   *)
(* sides of it with small integers, an optimize call carries a decimal     *)
(* exponent e: its prices (and alpha and c, F in squared units) are the    *)
(* model's numbers times 10^-e.  Every formula of that code is homogeneous *)
(* in the unit except the comparison with 1e-12, which GtEps states in the *)
(* unit of the call.                                                       *)
(***************************************************************************)
EXTENDS Integers, Sequences, FiniteSets, TLC

VARIABLES pc, SYMS, builds, request, call, resp

vars == <<pc, SYMS, builds, request, call, resp>>

(* ------------------------------ bounds --------------------------------- *)
MaxAlpha == 3
MaxBeta == 2
MaxCost == 2
MaxFixed == 1
MaxPrice == 3
MaxObs == 3
GridDen == 4

\* decimal exponents of the price unit of an optimize call: 10^0, and the
\* unit in which 1e-12 is the number 1
OptExps == {0, 12}

\* 1e-12 = 10^-EpsExp: service.py:90
EpsExp == 12

(* --------------------------- exact rationals --------------------------- *)
AbsI(x) == IF x < 0 THEN -x ELSE x

RECURSIVE GCD(_, _)
GCD(a, b) == IF b = 0 THEN a ELSE GCD(b, a % b)

DivZero == <<0, 0>>

IsDivZero(x) == x[2] = 0

Rat(n, d) ==
  IF d = 0 THEN DivZero
  ELSE IF d = 1 THEN <<n, 1>>
  ELSE LET g == GCD(AbsI(n), AbsI(d))
           s == IF d < 0 THEN -1 ELSE 1
       IN <<(s * n) \div g, (s * d) \div g>>

I(n) == <<n, 1>>

RNeg(x) == <<-x[1], x[2]>>

RAdd(x, y) ==
  IF IsDivZero(x) \/ IsDivZero(y) THEN DivZero
  ELSE IF x[2] = y[2] THEN Rat(x[1] + y[1], x[2])
  ELSE LET l == (x[2] \div GCD(x[2], y[2])) * y[2]
       IN Rat(x[1] * (l \div x[2]) + y[1] * (l \div y[2]), l)

RSub(x, y) == RAdd(x, RNeg(y))

RMul(x, y) ==
  IF IsDivZero(x) \/ IsDivZero(y) THEN DivZero
  ELSE IF x[2] = 1 /\ y[2] = 1 THEN <<x[1] * y[1], 1>>
  ELSE LET g1 == GCD(AbsI(x[1]), y[2])
           g2 == GCD(AbsI(y[1]), x[2])
       IN <<(x[1] \div g1) * (y[1] \div g2), (x[2] \div g2) * (y[2] \div g1)>>

\* x / y; a zero divisor gives DivZero
RDiv(x, y) ==
  IF IsDivZero(x) \/ IsDivZero(y) \/ y[1] = 0 THEN DivZero
  ELSE RMul(x, Rat(y[2], y[1]))

RLt(x, y) == x[1] * y[2] < y[1] * x[2]
RLe(x, y) == x[1] * y[2] <= y[1] * x[2]
RAbs(x) == <<AbsI(x[1]), x[2]>>
RMax(x, y) == IF RLt(x, y) THEN y ELSE x
RMin(x, y) == IF RLt(y, x) THEN y ELSE x
RECURSIVE Pow10(_)
Pow10(k) == IF k = 0 THEN 1 ELSE 10 * Pow10(k - 1)

RECURSIVE FloorDivPow10(_, _)
FloorDivPow10(d, k) == IF k = 0 THEN d ELSE FloorDivPow10(d \div 10, k - 1)

\* x * 10^-e > 10^-EpsExp, for x >= 0 a price in units of 10^-e
GtEps(x, e) ==
  IF e >= EpsExp THEN x[1] > x[2] * Pow10(e - EpsExp)
  ELSE x[1] > FloorDivPow10(x[2], EpsExp - e)

(* ------------------ naturals of any size, in limbs --------------------- *)
\* a natural number is the sequence of its digits in base Limb, lowest
\* first, without leading zeros; 0 is <<>>.  Limb * Limb fits a 32-bit int.
LimbBits == 15
Limb == 32768

RECURSIVE Pow2(_)
Pow2(k) == IF k = 0 THEN 1 ELSE 2 * Pow2(k - 1)

RECURSIVE NStrip(_)
NStrip(a) ==
  IF a = <<>> THEN a
  ELSE IF a[Len(a)] = 0 THEN NStrip(SubSeq(a, 1, Len(a) - 1))
  ELSE a

RECURSIVE NFromInt(_)
NFromInt(k) == IF k = 0 THEN <<>> ELSE <<k % Limb>> \o NFromInt(k \div Limb)

NDigit(a, i) == IF i <= Len(a) THEN a[i] ELSE 0

RECURSIVE NCmpFrom(_, _, _)
NCmpFrom(a, b, i) ==
  IF i = 0 THEN 0
  ELSE IF a[i] < b[i] THEN -1
  ELSE IF a[i] > b[i] THEN 1
  ELSE NCmpFrom(a, b, i - 1)

\* -1, 0, 1 as a < b, a = b, a > b
NCmp(a, b) ==
  IF Len(a) < Len(b) THEN -1
  ELSE IF Len(a) > Len(b) THEN 1
  ELSE NCmpFrom(a, b, Len(a))

RECURSIVE NAddFrom(_, _, _, _)
NAddFrom(a, b, i, carry) ==
  IF i > Len(a) /\ i > Len(b)
  THEN IF carry = 0 THEN <<>> ELSE <<carry>>
  ELSE LET s == NDigit(a, i) + NDigit(b, i) + carry
       IN <<s % Limb>> \o NAddFrom(a, b, i + 1, s \div Limb)

NAdd(a, b) == NAddFrom(a, b, 1, 0)

RECURSIVE NSubFrom(_, _, _, _)
NSubFrom(a, b, i, borrow) ==
  IF i > Len(a) THEN <<>>
  ELSE LET s == a[i] - NDigit(b, i) - borrow
       IN IF s < 0 THEN <<s + Limb>> \o NSubFrom(a, b, i + 1, 1)
          ELSE <<s>> \o NSubFrom(a, b, i + 1, 0)

\* a - b, for a >= b
NSub(a, b) == NStrip(NSubFrom(a, b, 1, 0))

RECURSIVE NMulSmallFrom(_, _, _, _)
NMulSmallFrom(a, d, i, carry) ==
  IF i > Len(a)
  THEN IF carry = 0 THEN <<>> ELSE <<carry>>
  ELSE LET s == a[i] * d + carry
       IN <<s % Limb>> \o NMulSmallFrom(a, d, i + 1, s \div Limb)

\* a * d, for 0 < d < Limb
NMulSmall(a, d) == NMulSmallFrom(a, d, 1, 0)

RECURSIVE NMulFrom(_, _, _)
NMulFrom(a, b, i) ==
  IF i > Len(b) THEN <<>>
  ELSE LET rest == NMulFrom(a, b, i + 1)
           shifted == IF rest = <<>> THEN <<>> ELSE <<0>> \o rest
       IN IF b[i] = 0 THEN shifted ELSE NAdd(NMulSmall(a, b[i]), shifted)

NMul(a, b) ==
  IF a = <<>> \/ b = <<>> THEN <<>>
  ELSE IF Len(a) >= Len(b) THEN NMulFrom(a, b, 1) ELSE NMulFrom(b, a, 1)

RECURSIVE NDivSmallFrom(_, _, _, _)
\* the digits i..1 of a divided by d with r carried in: <<quotient, remainder>>
NDivSmallFrom(a, d, i, r) ==
  IF i = 0 THEN <<<<>>, r>>
  ELSE LET s == r * Limb + a[i]
           low == NDivSmallFrom(a, d, i - 1, s % d)
       IN <<Append(low[1], s \div d), low[2]>>

\* <<a div d, a mod d>>, for 0 < d < Limb
NDivSmall(a, d) ==
  LET qr == NDivSmallFrom(a, d, Len(a), 0)
  IN <<NStrip(qr[1]), qr[2]>>

RECURSIVE NDigitOf(_, _, _, _)
\* the largest d in lo..hi with b * d <= r (b * lo <= r is given)
NDigitOf(r, b, lo, hi) ==
  IF lo = hi THEN lo
  ELSE LET mid == (lo + hi + 1) \div 2
       IN IF NCmp(NMulSmall(b, mid), r) <= 0
          THEN NDigitOf(r, b, mid, hi)
          ELSE NDigitOf(r, b, lo, mid - 1)

RECURSIVE NDivFrom(_, _, _)
\* long division of the digits i..Len(a) of a by b: <<quotient, remainder>>
NDivFrom(a, b, i) ==
  IF i > Len(a) THEN <<<<>>, <<>>>>
  ELSE LET high == NDivFrom(a, b, i + 1)
           r == NStrip(<<a[i]>> \o high[2])
           d == IF NCmp(r, b) < 0 THEN 0 ELSE NDigitOf(r, b, 1, Limb - 1)
       IN <<<<d>> \o high[1], IF d = 0 THEN r ELSE NSub(r, NMulSmall(b, d))>>

\* <<a div b, a mod b>>, for b # 0
NDivMod(a, b) ==
  IF Len(b) = 1 THEN LET qr == NDivSmall(a, b[1]) IN <<qr[1], NFromInt(qr[2])>>
  ELSE LET qr == NDivFrom(a, b, 1) IN <<NStrip(qr[1]), qr[2]>>

RECURSIVE BitLenInt(_)
BitLenInt(k) == IF k = 0 THEN 0 ELSE 1 + BitLenInt(k \div 2)

NBitLen(a) ==
  IF a = <<>> THEN 0 ELSE LimbBits * (Len(a) - 1) + BitLenInt(a[Len(a)])

NZeros(w) == [i \in 1..w |-> 0]

\* a * 2^k
NShl(a, k) ==
  IF a = <<>> \/ k = 0 THEN a
  ELSE LET b == k % LimbBits
       IN NZeros(k \div LimbBits) \o (IF b = 0 THEN a ELSE NMulSmall(a, Pow2(b)))

\* a div 2^k
NShr(a, k) ==
  IF k = 0 THEN a
  ELSE IF k \div LimbBits >= Len(a) THEN <<>>
  ELSE LET rest == SubSeq(a, k \div LimbBits + 1, Len(a))
           b == k % LimbBits
       IN IF b = 0 THEN rest ELSE NDivSmall(rest, Pow2(b))[1]

NIsOdd(a) == a # <<>> /\ a[1] % 2 = 1

RECURSIVE TrailingZerosInt(_)
TrailingZerosInt(k) == IF k % 2 = 1 THEN 0 ELSE 1 + TrailingZerosInt(k \div 2)

RECURSIVE NTrailingZerosFrom(_, _)
NTrailingZerosFrom(a, i) ==
  IF a[i] = 0 THEN LimbBits + NTrailingZerosFrom(a, i + 1)
  ELSE TrailingZerosInt(a[i])

\* the number of low zero bits of a # 0
NTrailingZeros(a) == NTrailingZerosFrom(a, 1)

(* ------------------------ dyadic numbers, exact ------------------------ *)
\* (-1)^s * m * 2^e with m odd, or 0 (then s = 0 and e = 0): the numbers a
\* binary float can be, here with a mantissa of any size
FZero == [s |-> 0, m |-> <<>>, e |-> 0]

\* (-1)^s * n * 2^e
Dyadic(s, n, e) ==
  IF n = <<>> THEN FZero
  ELSE IF n[1] % 2 = 1 THEN [s |-> s, m |-> n, e |-> e]
  ELSE LET tz == NTrailingZeros(n)
       IN [s |-> s, m |-> NShr(n, tz), e |-> e + tz]

DNeg(x) == IF x.m = <<>> THEN x ELSE [x EXCEPT !.s = 1 - x.s]

DSign(x) == IF x.m = <<>> THEN 0 ELSE IF x.s = 1 THEN -1 ELSE 1

DAdd(x, y) ==
  IF x.m = <<>> THEN y
  ELSE IF y.m = <<>> THEN x
  ELSE LET e == IF x.e < y.e THEN x.e ELSE y.e
           a == NShl(x.m, x.e - e)
           b == NShl(y.m, y.e - e)
       IN IF x.s = y.s THEN Dyadic(x.s, NAdd(a, b), e)
          ELSE LET c == NCmp(a, b)
               IN IF c = 0 THEN FZero
                  ELSE IF c > 0 THEN Dyadic(x.s, NSub(a, b), e)
                  ELSE Dyadic(y.s, NSub(b, a), e)

DSub(x, y) == DAdd(x, DNeg(y))

DMul(x, y) ==
  IF x.m = <<>> \/ y.m = <<>> THEN FZero
  ELSE [s |-> IF x.s = y.s THEN 0 ELSE 1, m |-> NMul(x.m, y.m), e |-> x.e + y.e]

\* -1, 0, 1 as x < y, x = y, x > y
DCmp(x, y) ==
  IF DSign(x) # DSign(y) THEN (IF DSign(x) < DSign(y) THEN -1 ELSE 1)
  ELSE IF x.m = <<>> THEN 0
  ELSE LET e == IF x.e < y.e THEN x.e ELSE y.e
       IN DSign(x) * NCmp(NShl(x.m, x.e - e), NShl(y.m, y.e - e))

(* ---------------------- Python floats (binary64) ----------------------- *)
\* A float is a dyadic number whose mantissa has at most 53 bits; every
\* operation is the exact one followed by rounding to nearest, ties to even.
\* Left out: the exponent range (overflow, subnormals), NaN and the sign of
\* zero.  s = 2 marks the result of a division whose divisor is zero (Python
\* raises ZeroDivisionError there).
MantBits == 53

FDivZero == [s |-> 2, m |-> <<>>, e |-> 0]
FIsDivZero(x) == x.s = 2

\* the float nearest to the dyadic number x
FRound(x) ==
  LET sh == NBitLen(x.m) - MantBits
  IN IF sh <= 0 THEN x
     ELSE LET q2 == NShr(x.m, sh - 1)
              q == NShr(q2, 1)
              sticky == NShl(q2, sh - 1) # x.m
          IN IF NIsOdd(q2) /\ (sticky \/ NIsOdd(q))
             THEN Dyadic(x.s, NAdd(q, <<1>>), x.e + sh)
             ELSE Dyadic(x.s, q, x.e + sh)

\* float(k) of an int k
FInt(k) ==
  IF k < 0 THEN FRound(Dyadic(1, NFromInt(-k), 0))
  ELSE FRound(Dyadic(0, NFromInt(k), 0))

FNeg(x) == IF FIsDivZero(x) THEN x ELSE DNeg(x)
FAbs(x) == IF x.s = 1 THEN [x EXCEPT !.s = 0] ELSE x

FLt(x, y) == DCmp(x, y) < 0
FLe(x, y) == DCmp(x, y) <= 0

FAdd(x, y) == IF FIsDivZero(x) \/ FIsDivZero(y) THEN FDivZero ELSE FRound(DAdd(x, y))

FSub(x, y) == FAdd(x, FNeg(y))

FMul(x, y) == IF FIsDivZero(x) \/ FIsDivZero(y) THEN FDivZero ELSE FRound(DMul(x, y))

\* x ** 2
FSq(x) == FMul(x, x)

\* x / y; a zero divisor gives FDivZero
FDiv(x, y) ==
  IF FIsDivZero(x) \/ FIsDivZero(y) \/ y.m = <<>> THEN FDivZero
  ELSE IF x.m = <<>> THEN FZero
  ELSE IF y.m = <<1>>
  THEN [s |-> IF x.s = y.s THEN 0 ELSE 1, m |-> x.m, e |-> x.e - y.e]
  ELSE LET k == MantBits + 2 + NBitLen(y.m) - NBitLen(x.m)
           qr == NDivMod(NShl(x.m, k), y.m)
           n == NAdd(NShl(qr[1], 1), IF qr[2] = <<>> THEN <<>> ELSE <<1>>)
       IN FRound(Dyadic(IF x.s = y.s THEN 0 ELSE 1, n, x.e - y.e - k - 1))

RECURSIVE FSumTo(_, _)
\* sum(f[i] for i in 1..k), Python's left-to-right sum starting at 0
FSumTo(f, k) == IF k = 0 THEN FZero ELSE FAdd(FSumTo(f, k - 1), f[k])

\* the float a JSON number num/den (both whole) is read as
FloatOf(d) == FDiv(FInt(d[1]), FInt(d[2]))

(* ---------------------- symbolic expressions (SymPy) ------------------- *)
\* A monomial in the parameter symbols alpha, beta, c, F (each to the power 0
\* or 1) is the set of its symbols, numbered by NumOf; a coefficient is a tuple
\* indexed by monomial number, holding the integer factor of each monomial; an
\* expression in p is the sequence of its coefficients, lowest degree first.
Symbols == {"alpha", "beta", "c", "F"}
Mono == SUBSET Symbols

BitOf(sym) ==
  CASE sym = "alpha" -> 1 [] sym = "beta" -> 2 [] sym = "c" -> 4 [] sym = "F" -> 8

RECURSIVE NumOf(_)
NumOf(m) ==
  IF m = {} THEN 1
  ELSE LET sym == CHOOSE x \in m : TRUE IN BitOf(sym) + NumOf(m \ {sym})

NMono == Cardinality(Mono)
MonoAt(k) == CHOOSE m \in Mono : NumOf(m) = k

CZero == [k \in 1..NMono |-> 0]
CSym(sym) == [k \in 1..NMono |-> IF k = NumOf({sym}) THEN 1 ELSE 0]
CAdd(x, y) == [k \in 1..NMono |-> x[k] + y[k]]
CNeg(x) == [k \in 1..NMono |-> -x[k]]
CScale(j, x) == [k \in 1..NMono |-> j * x[k]]

\* the coefficient x times the symbol sym
CMulSym(x, sym) ==
  [k \in 1..NMono |->
     IF sym \in MonoAt(k) THEN x[NumOf(MonoAt(k) \ {sym})] ELSE 0]

Coef(e, i) == IF i <= Len(e) THEN e[i] ELSE CZero
EAdd(x, y) ==
  [i \in 1..(IF Len(x) > Len(y) THEN Len(x) ELSE Len(y)) |->
     CAdd(Coef(x, i), Coef(y, i))]
ENeg(x) == [i \in 1..Len(x) |-> CNeg(x[i])]
ESub(x, y) == EAdd(x, ENeg(y))
\* p * x
EMulP(x) == <<CZero>> \o x
\* (parameter symbol) * x
EMulSym(x, m0) == [i \in 1..Len(x) |-> CMulSym(x[i], m0)]
\* diff(x, p)
diff(x) == [i \in 1..(Len(x) - 1) |-> CScale(i, x[i + 1])]

SymAlpha == "alpha"
SymBeta == "beta"
SymC == "c"
SymF == "F"

\* the integer a parameter symbol takes under the substitution env
SymVal(sym, env) ==
  CASE sym = "alpha" -> env.alpha [] sym = "beta" -> env.beta
    [] sym = "c" -> env.c [] sym = "F" -> env.F

RECURSIVE MonoVal(_, _)
MonoVal(m, env) ==
  IF m = {} THEN 1
  ELSE LET sym == CHOOSE x \in m : TRUE
       IN SymVal(sym, env) * MonoVal(m \ {sym}, env)

RECURSIVE SumMonos(_, _, _)
SumMonos(k, x, env) ==
  IF k = 0 THEN 0
  ELSE (IF x[k] = 0 THEN 0 ELSE x[k] * MonoVal(MonoAt(k), env))
       + SumMonos(k - 1, x, env)

\* coefficient.subs(env)
CVal(x, env) == SumMonos(NMono, x, env)

RECURSIVE Horner(_, _, _, _)
Horner(x, env, pv, i) ==
  IF i > Len(x) THEN I(0)
  ELSE RAdd(I(CVal(x[i], env)), RMul(pv, Horner(x, env, pv, i + 1)))

\* expr.subs({...params..., p: pv}).evalf()
Subs(x, env, pv) == Horner(x, env, pv, 1)

(* --------------------- service.py: the symbolic model ------------------ *)
\* a slip of solve: the root's sign is lost, x0/x1
solveSignSlip(x) ==
  IF Len(x) = 2 /\ x[2] # CZero
  THEN <<[num |-> x[1], den |-> x[2]]>>
  ELSE <<>>

\* solve(Eq(x, 0), p) for x of degree one in p: the root -x0/x1
solve(x) ==
  IF Len(x) = 2 /\ x[2] # CZero
  THEN <<[num |-> CNeg(x[1]), den |-> x[2]]>>
  ELSE <<>>

\* the first nonzero entry of a coefficient is made positive in the denominator
LeadSign(x) ==
  LET nz == {k \in 1..NMono : x[k] # 0}
  IN IF nz = {} THEN 1
     ELSE IF \E k \in nz : x[k] > 0 THEN 1 ELSE -1

\* simplify(root): num/den with the sign moved out of the denominator
simplify(r) ==
  IF LeadSign(r.den) < 0 THEN [num |-> CNeg(r.num), den |-> CNeg(r.den)] ELSE r

\* the dictionary _build_symbolic_model returns, given what solve returned;
\* p_star is <<>> for None
build_symbolic_model(p_star_solutions) ==
  LET q == <<CSym(SymAlpha), CNeg(CSym(SymBeta))>>
      pi == ESub(EMulP(q), EAdd(<<CSym(SymF)>>, EMulSym(q, SymC)))
      dpi == diff(pi)
      d2 == diff(dpi)
  IN [q |-> q, pi |-> pi, dpi |-> dpi, d2 |-> d2,
      p_star |-> IF p_star_solutions # <<>>
                 THEN <<simplify(p_star_solutions[1])>> ELSE <<>>]

\* the first derivative of the profit, the argument of solve
ProfitDerivative == build_symbolic_model(<<>>).dpi

\* str(expr) and latex(expr): a rendering names the expression's nonzero terms
Terms(x) ==
  {<<i - 1, k, x[i][k]>> : i \in 1..Len(x), k \in 1..NMono} \ 
    {<<i - 1, k, 0>> : i \in 1..Len(x), k \in 1..NMono}
str(x) == <<"str", Terms(x)>>
latex(x) == <<"latex", Terms(x)>>
strRoot(r) == <<"str", Terms(<<r.num>>), Terms(<<r.den>>)>>
latexRoot(r) == <<"latex", Terms(<<r.num>>), Terms(<<r.den>>)>>

Derivation(S) ==
  [objective |-> str(S.pi), d1 |-> str(S.dpi), d2 |-> str(S.d2),
   pStarFormula |-> strRoot(S.p_star[1]),
   objective_latex |-> latex(S.pi), d1_latex |-> latex(S.dpi),
   d2_latex |-> latex(S.d2), pStarFormula_latex |-> latexRoot(S.p_star[1])]

(* ------------------------ service.py: outcomes ------------------------- *)
MsgBeta == "beta deve ser > 0"
MsgBounds == "pMax deve ser >= pMin"
MsgNoPStar == "Nao foi possivel determinar simbolicamente o preco otimo"
MsgFewPoints == "Forneca pelo menos 2 pares"
MsgVariance == "Variancia de precos ~ 0"
MsgSlope == "Slope nao negativo"

Returned(r) == [kind |-> "ok", msg |-> "", res |-> <<r>>]
BadRequest(m) == [kind |-> "BadRequest", msg |-> m, res |-> <<>>]
ZeroDivisionError == [kind |-> "ZeroDivisionError", msg |-> "division by zero", res |-> <<>>]

(* --------------------- service.py: optimize_with_sympy ----------------- *)
\* a slip of the clamp: the upper bound is not applied, max(x, lo)
ClampLowerOnly(x, lo, hi) == RMax(x, lo)

\* min(max(x, lo), hi)
Clamp(x, lo, hi) == RMin(RMax(x, lo), hi)

\* a slip of the flag: no tolerance, p_opt != p_star_num
UsedBoundaryExact(p_opt, p_star_num, e) == p_opt # p_star_num

\* abs(p_opt - p_star_num) > 1e-12
UsedBoundary(p_opt, p_star_num, e) == GtEps(RAbs(RSub(p_opt, p_star_num)), e)

\* (revenue - c * q_opt) / revenue if revenue > 0 else 0.0
MarginOf(revenue, c, q_opt) ==
  IF RLt(I(0), revenue)
  THEN RDiv(RSub(revenue, RMul(I(c), q_opt)), revenue)
  ELSE I(0)

\* a slip of the guard: q_opt >= 0 for q_opt > 0
ElasticityGuardSlip(alpha, beta, p_opt, q_opt) ==
  IF RLe(I(0), q_opt)
  THEN RDiv(RMul(I(-beta), p_opt), RSub(I(alpha), RMul(I(beta), p_opt)))
  ELSE I(0)

\* (-beta * p_opt) / (alpha - beta * p_opt) if q_opt > 0 else 0.0
ElasticityOf(alpha, beta, p_opt, q_opt) ==
  IF RLt(I(0), q_opt)
  THEN RDiv(RMul(I(-beta), p_opt), RSub(I(alpha), RMul(I(beta), p_opt)))
  ELSE I(0)

\* p_star_expr.subs({alpha, beta, c}).evalf()
PStarNum(r, env) == Rat(CVal(r.num, env), CVal(r.den, env))

OptimizeBody(req, S) ==
  LET env == [alpha |-> req.alpha, beta |-> req.beta, c |-> req.c, F |-> req.F]
      p_star_num == PStarNum(S.p_star[1], env)
      p_opt == Clamp(p_star_num, I(req.pMin), I(req.pMax))
      used_boundary == UsedBoundary(p_opt, p_star_num, req.e)
      q_opt == RMax(I(0), Subs(S.q, env, p_opt))
      revenue == RMul(p_opt, q_opt)
      profit_opt == RSub(revenue, RAdd(I(req.F), RMul(I(req.c), q_opt)))
      margin == MarginOf(revenue, req.c, q_opt)
      elasticity == ElasticityOf(req.alpha, req.beta, p_opt, q_opt)
  IN IF IsDivZero(p_star_num) \/ IsDivZero(margin) \/ IsDivZero(elasticity)
     THEN ZeroDivisionError
     ELSE Returned([pOpt |-> p_opt, qOpt |-> q_opt, profitOpt |-> profit_opt,
                    revenue |-> revenue, margin |-> margin,
                    elasticity |-> elasticity, usedBoundary |-> used_boundary,
                    derivation |-> Derivation(S)])

\* optimize_with_sympy without the check of lines 74-75: None.subs raises
AttributeError == [kind |-> "AttributeError", msg |-> "'NoneType' object has no attribute 'subs'", res |-> <<>>]
optimize_without_none_check(req, S) ==
  IF req.beta <= 0 THEN BadRequest(MsgBeta)
  ELSE IF req.pMin > req.pMax THEN BadRequest(MsgBounds)
  ELSE IF S.p_star = <<>> THEN AttributeError
  ELSE OptimizeBody(req, S)

optimize_with_sympy(req, S) ==
  IF req.beta <= 0 THEN BadRequest(MsgBeta)
  ELSE IF req.pMin > req.pMax THEN BadRequest(MsgBounds)
  ELSE IF S.p_star = <<>> THEN BadRequest(MsgNoPStar)
  ELSE OptimizeBody(req, S)

(* ------------------------- service.py: fit_linear ---------------------- *)
\* the float literal 1e-12
Eps12 == FDiv(FInt(1), FMul(FInt(1000000), FInt(1000000)))

\* abs(sxx) < 1e-12
PriceVarianceDegenerate(sxx) == FLt(FAbs(sxx), Eps12)

\* 1 - (ss_res / ss_tot) if ss_tot > 0 else 0.0
R2Of(ss_res, ss_tot) ==
  IF FLt(FZero, ss_tot) THEN FSub(FInt(1), FDiv(ss_res, ss_tot)) ELSE FZero

\* too few observations: n < 2
TooFew(n) == n < 2

\* beta <= 0
NonDecreasing(beta) == FLe(beta, FZero)

\* the sums and the means (lines 168-175)
FitMeans(pontos) ==
  LET n == Len(pontos)
  IN [n |-> n,
      sumPP |-> FSumTo([i \in 1..n |-> FMul(pontos[i].price, pontos[i].price)], n),
      sumPQ |-> FSumTo([i \in 1..n |-> FMul(pontos[i].price, pontos[i].quantity)], n),
      meanP |-> FDiv(FSumTo([i \in 1..n |-> pontos[i].price], n), FInt(n)),
      meanQ |-> FDiv(FSumTo([i \in 1..n |-> pontos[i].quantity], n), FInt(n))]

\* sxx = sumPP - n * meanP * meanP, sxy = sumPQ - n * meanP * meanQ
\* (lines 178-179)
FitCentred(m) ==
  [n |-> m.n, meanP |-> m.meanP, meanQ |-> m.meanQ,
   sxx |-> FSub(m.sumPP, FMul(FMul(FInt(m.n), m.meanP), m.meanP)),
   sxy |-> FSub(m.sumPQ, FMul(FMul(FInt(m.n), m.meanP), m.meanQ))]

FitSums(pontos) == FitCentred(FitMeans(pontos))

\* intercept = meanQ - slope * meanP (line 186)
FitIntercept(s, slope) ==
  [slope |-> slope, intercept |-> FSub(s.meanQ, FMul(slope, s.meanP))]

\* slope = sxy / sxx (line 185)
FitLine(s) == FitIntercept(s, FDiv(s.sxy, s.sxx))

\* ss_tot and ss_res (lines 189-193)
FitSquares(pontos, s, l) ==
  [ss_tot |-> FSumTo([i \in 1..s.n |->
                FSq(FSub(pontos[i].quantity, s.meanQ))], s.n),
   ss_res |-> FSumTo([i \in 1..s.n |->
                FSq(FSub(pontos[i].quantity,
                         FAdd(l.intercept, FMul(l.slope, pontos[i].price))))],
                s.n)]

\* r2, alpha = intercept and beta = -slope (lines 194-198)
FitValues(l, q) ==
  [slope |-> l.slope, intercept |-> l.intercept, ss_tot |-> q.ss_tot,
   ss_res |-> q.ss_res, r2 |-> R2Of(q.ss_res, q.ss_tot),
   alpha |-> l.intercept, beta |-> FNeg(l.slope)]

FitOnLine(pontos, s, l) == FitValues(l, FitSquares(pontos, s, l))

\* the regression coefficients and r2 (lines 185-198)
FitCoefficients(pontos, s) == FitOnLine(pontos, s, FitLine(s))

\* the guard on beta and the result (lines 200-212)
FitReturn(k) ==
  IF FIsDivZero(k.slope) \/ FIsDivZero(k.r2) THEN ZeroDivisionError
  ELSE IF NonDecreasing(k.beta) THEN BadRequest(MsgSlope)
  ELSE Returned([alpha |-> k.alpha, beta |-> k.beta, slope |-> k.slope,
                 intercept |-> k.intercept, r2 |-> k.r2])

\* the guard on sxx and what follows it (lines 181-212)
FitGuarded(pontos, s) ==
  IF FIsDivZero(s.meanP) \/ FIsDivZero(s.meanQ) THEN ZeroDivisionError
  ELSE IF PriceVarianceDegenerate(s.sxx) THEN BadRequest(MsgVariance)
  ELSE FitReturn(FitCoefficients(pontos, s))

fit_linear(pontos) ==
  IF TooFew(Len(pontos)) THEN BadRequest(MsgFewPoints)
  ELSE FitGuarded(pontos, FitSums(pontos))

(* ------------------------------ app.py --------------------------------- *)
\* pydantic: OptimizeRequest(**data) raises ValidationError unless
\* alpha >= 0, beta > 0, c >= 0, F >= 0, pMin >= 0, pMax >= 0
OptimizeRequestValid(d) ==
  d.alpha >= 0 /\ d.beta > 0 /\ d.c >= 0 /\ d.F >= 0 /\ d.pMin >= 0 /\ d.pMax >= 0

\* what the try/except of a handler makes of the core's outcome
HandlerStatus(out) == IF out.kind = "ok" THEN 200 ELSE 500

\* pydantic: FitRequest(**data) reads every number of data as a float
FitPoint(d) == [price |-> FloatOf(d.price), quantity |-> FloatOf(d.quantity)]

FitRequest(data) == [i \in 1..Len(data) |-> FitPoint(data[i])]

StatusNoJson == 422
StatusValidation == 422

(* ------------------------------ inputs --------------------------------- *)
OptimizeInputs ==
  [alpha : (-1)..MaxAlpha, beta : (-1)..MaxBeta, c : (-1)..MaxCost,
   F : 0..MaxFixed, pMin : 0..MaxPrice, pMax : 0..MaxPrice, e : OptExps]

\* the observation {"price": pn/pd, "quantity": qn/qd} of a request body
Point(pn, pd, qn, qd) == [price |-> <<pn, pd>>, quantity |-> <<qn, qd>>]

\* observations at the prices 1, 2, 3, 53.15, 99999.99 and 100000, of the
\* quantities 9, 7, 5 and 0.1
FitPoints ==
  {Point(1, 1, 9, 1), Point(2, 1, 7, 1), Point(3, 1, 5, 1),
   Point(5315, 100, 7, 1), Point(1, 1, 1, 10), Point(2, 1, 1, 10),
   Point(9999999, 100, 7, 1), Point(100000, 1, 5, 1)}

FitInputs == UNION {[1..n -> FitPoints] : n \in 0..MaxObs}

NoRequest == [route |-> "none", body |-> <<>>, e |-> 0]
NoCall ==
  [op |-> "none", arg |-> <<>>, e |-> 0,
   out |-> [kind |-> "none", msg |-> "", res |-> <<>>]]
NoResp == [route |-> "none", status |-> 0]

(* --------------------------- the state machine ------------------------- *)
\* the dictionary bound to the module-level name SYMS
Model == SYMS[1]

Init ==
  /\ pc = "import"
  /\ SYMS = <<>>
  /\ builds = 0
  /\ request = NoRequest
  /\ call = NoCall
  /\ resp = NoResp

\* a slip of the caching: the model is built at import and again whenever a
\* request is about to be served
ImportServicePerRequest ==
  /\ pc \in {"import", "idle"}
  /\ SYMS' = <<build_symbolic_model(solve(ProfitDerivative))>>
  /\ builds' = builds + 1
  /\ pc' = IF pc = "import" THEN "loaded" ELSE pc
  /\ UNCHANGED <<request, call, resp>>

\* `from service import ...` (app.py:6) runs service.py's top level:
\* SYMS = _build_symbolic_model(), where solve finds the root of pi'(p) = 0
ImportService ==
  /\ pc = "import"
  /\ SYMS' = <<build_symbolic_model(solve(ProfitDerivative))>>
  /\ builds' = builds + 1
  /\ pc' = "loaded"
  /\ UNCHANGED <<request, call, resp>>

\* the same with the answer of the library call solve left open: the code
\* provides for an empty list (service.py:42), which either list may be
ImportServiceAnySolve ==
  /\ pc = "import"
  /\ \E sols \in {solve(ProfitDerivative), <<>>} :
       SYMS' = <<build_symbolic_model(sols)>>
  /\ builds' = builds + 1
  /\ pc' = "loaded"
  /\ UNCHANGED <<request, call, resp>>

\* app.run(...): the routes accept requests
AppRun ==
  /\ pc = "loaded"
  /\ pc' = "idle"
  /\ UNCHANGED <<SYMS, builds, request, call, resp>>

\* a POST /optimize arrives: body is <<>> when request.get_json() gives None,
\* else <<data>>
ReceiveOptimize ==
  /\ pc = "idle"
  /\ \E body \in {<<>>} \cup {<<d>> : d \in OptimizeInputs} :
       request' = [route |-> "/optimize", body |-> body, e |-> 0]
  /\ pc' = "received"
  /\ UNCHANGED <<SYMS, builds, call, resp>>

\* a POST /fit arrives: body is <<>> when request.get_json() gives None, else
\* <<pontos>> for {"data": pontos}
ReceiveFit ==
  /\ pc = "idle"
  /\ \E body \in {<<>>} \cup {<<d>> : d \in FitInputs} :
       request' = [route |-> "/fit", body |-> body, e |-> 0]
  /\ pc' = "received"
  /\ UNCHANGED <<SYMS, builds, call, resp>>

\* a caller of the core is about to invoke optimize_with_sympy(r) directly,
\* with any OptimizeRequest (one built without validation included)
ReceiveCall ==
  /\ pc = "idle"
  /\ \E r \in OptimizeInputs :
       request' = [route |-> "core", body |-> <<r>>, e |-> 0]
  /\ pc' = "received"
  /\ UNCHANGED <<SYMS, builds, call, resp>>

\* optimize_with_sympy(req), called directly
CallOptimize ==
  /\ pc = "received"
  /\ request.route = "core"
  /\ call' = [op |-> "optimize", arg |-> request.body[1], e |-> request.body[1].e,
              out |-> optimize_with_sympy(request.body[1], Model)]
  /\ resp' = [route |-> "core", status |-> 0]
  /\ pc' = "done"
  /\ UNCHANGED <<SYMS, builds, request>>

\* the handler of POST /optimize
post_optimize ==
  /\ pc = "received"
  /\ request.route = "/optimize"
  /\ IF request.body = <<>>
     THEN /\ call' = NoCall
          /\ resp' = [route |-> "/optimize", status |-> StatusNoJson]
     ELSE IF OptimizeRequestValid(request.body[1])
     THEN LET out == optimize_with_sympy(request.body[1], Model)
          IN /\ call' = [op |-> "optimize", arg |-> request.body[1],
                         e |-> request.body[1].e, out |-> out]
             /\ resp' = [route |-> "/optimize", status |-> HandlerStatus(out)]
     ELSE /\ call' = NoCall
          /\ resp' = [route |-> "/optimize", status |-> StatusValidation]
  /\ pc' = "done"
  /\ UNCHANGED <<SYMS, builds, request>>

\* the handler of POST /fit
post_fit ==
  /\ pc = "received"
  /\ request.route = "/fit"
  /\ IF request.body = <<>>
     THEN /\ call' = NoCall
          /\ resp' = [route |-> "/fit", status |-> StatusNoJson]
     ELSE LET req == FitRequest(request.body[1])
              out == fit_linear(req)
          IN /\ call' = [op |-> "fit", arg |-> req, e |-> 0, out |-> out]
             /\ resp' = [route |-> "/fit", status |-> HandlerStatus(out)]
  /\ pc' = "done"
  /\ UNCHANGED <<SYMS, builds, request>>

\* the call returns (the response is sent); the next one may start
Return ==
  /\ pc = "done"
  /\ pc' = "idle"
  /\ request' = NoRequest
  /\ call' = NoCall
  /\ resp' = NoResp
  /\ UNCHANGED <<SYMS, builds>>

Next ==
  \/ ImportService
  \/ AppRun
  \/ ReceiveCall
  \/ ReceiveOptimize
  \/ ReceiveFit
  \/ CallOptimize
  \/ post_optimize
  \/ post_fit
  \/ Return

Spec == Init /\ [][Next]_vars

\* the optimize side of the service, whatever solve answers at import
NextAnySolve ==
  \/ ImportServiceAnySolve
  \/ AppRun
  \/ ReceiveCall
  \/ ReceiveOptimize
  \/ CallOptimize
  \/ post_optimize
  \/ Return

SpecAnySolve == Init /\ [][NextAnySolve]_vars

(* ======================= the claims, and their checks ================== *)
OptCalled == call.op = "optimize"
OptOk == OptCalled /\ call.out.kind = "ok"
FitCalled == call.op = "fit"
FitOk == FitCalled /\ call.out.kind = "ok"
Res == call.out.res[1]

\* pi(p) = p*(alpha - beta*p) - (F + c*(alpha - beta*p)), as the claim writes it
Profit(req, p) ==
  LET q == RSub(I(req.alpha), RMul(I(req.beta), p))
  IN RSub(RMul(p, q), RAdd(I(req.F), RMul(I(req.c), q)))

\* the prices j/GridDen of the feasible interval
TestPrices(req) ==
  {Rat(j, GridDen) : j \in (GridDen * req.pMin)..(GridDen * req.pMax)}

\* p* = (alpha + beta*c) / (2*beta), as the claim writes it
AnalyticOptimum(req) == Rat(req.alpha + req.beta * req.c, 2 * req.beta)

\* how far p* lies outside [pMin, pMax] (0 inside)
DistanceOutside(req) ==
  LET x == AnalyticOptimum(req)
  IN RMax(I(0), RMax(RSub(I(req.pMin), x), RSub(x, I(req.pMax))))

\* C1: for every valid input the returned pOpt maximizes the profit over the
\* feasible interval: pi(pOpt) >= pi(p) for every price p in [pMin, pMax].
C1_PriceMaximizesProfit ==
  OptOk =>
    \A p \in TestPrices(call.arg) :
      RLe(Profit(call.arg, p), Profit(call.arg, Res.pOpt))

\* an interior optimum that strictly beats both ends of the interval
C1_Witness ==
  /\ OptOk
  /\ call.arg.alpha >= 0 /\ call.arg.c >= 0
  /\ RLt(I(call.arg.pMin), Res.pOpt) /\ RLt(Res.pOpt, I(call.arg.pMax))
  /\ RLt(Profit(call.arg, I(call.arg.pMin)), Profit(call.arg, Res.pOpt))
  /\ RLt(Profit(call.arg, I(call.arg.pMax)), Profit(call.arg, Res.pOpt))

\* C2: every OptimizeResponse returned for beta > 0 and pMin <= pMax has
\* pMin <= pOpt <= pMax.
C2_PriceWithinBounds ==
  OptOk =>
    /\ RLe(I(call.arg.pMin), Res.pOpt)
    /\ RLe(Res.pOpt, I(call.arg.pMax))

\* the unconstrained optimum lies above pMax and the price returned is pMax
C2_Witness ==
  /\ OptOk
  /\ RLt(I(call.arg.pMax), AnalyticOptimum(call.arg))
  /\ Res.pOpt = I(call.arg.pMax)

Obs == call.arg
NObs == Len(Obs)

AllPricesEqual == \A i, j \in 1..NObs : Obs[i].price = Obs[j].price
AllQuantitiesEqual == \A i, j \in 1..NObs : Obs[i].quantity = Obs[j].quantity
TwoPrices == \E i, j \in 1..NObs : Obs[i].price # Obs[j].price

\* two observations with different prices
TwoPoints ==
  CHOOSE ij \in (1..NObs) \X (1..NObs) : Obs[ij[1]].price # Obs[ij[2]].price

\* the observations (the floats fit_linear is given) lie exactly on one line
\* q = A - B*p with B > 0: the line through TwoPoints falls, and no other
\* observation is off it
OnDemandLine ==
  /\ NObs >= 2
  /\ TwoPrices
  /\ LET i == TwoPoints[1]
         j == TwoPoints[2]
         dp == DSub(Obs[j].price, Obs[i].price)
         dq == DSub(Obs[i].quantity, Obs[j].quantity)
     IN /\ DSign(dq) = DSign(dp)
        /\ \A k \in 1..NObs :
             DMul(DSub(Obs[i].quantity, Obs[k].quantity), dp)
               = DMul(dq, DSub(Obs[k].price, Obs[i].price))

\* B and A of that line, as floats
LineB ==
  FDiv(FSub(Obs[TwoPoints[1]].quantity, Obs[TwoPoints[2]].quantity),
       FSub(Obs[TwoPoints[2]].price, Obs[TwoPoints[1]].price))
LineA == FAdd(Obs[1].quantity, FMul(LineB, Obs[1].price))

\* the floating tolerance of the comparisons: 1e-6, relative to the expected
\* value where that is above 1
FloatTol == FDiv(FInt(1), FInt(1000000))
Near(x, y) ==
  FLe(FAbs(FSub(x, y)),
      FMul(FloatTol, IF FLt(FInt(1), FAbs(y)) THEN FAbs(y) ELSE FInt(1)))

ExactFit ==
  /\ call.out.kind = "ok"
  /\ Near(Res.alpha, LineA) /\ Near(Res.beta, LineB)
  /\ Near(Res.intercept, LineA) /\ Near(Res.slope, FNeg(LineB))
  /\ Near(Res.r2, FInt(1))

\* C4: optimize and fit return a result iff none of their guards is violated
\* and otherwise raise the guard's error with no result: beta <= 0, then
\* pMin > pMax (optimize); n < 2, then all prices equal (|Sxx| < 1e-12), then
\* slope >= 0 (fit).  A FitResponse has beta > 0, alpha = intercept and
\* beta = -slope.
C4_GuardsDecideTheOutcome ==
  /\ OptCalled =>
       /\ call.out.kind = "ok" <=>
            (call.arg.beta > 0 /\ call.arg.pMin <= call.arg.pMax /\ Model.p_star # <<>>)
       /\ call.arg.beta <= 0 => call.out = BadRequest(MsgBeta)
       /\ (call.arg.beta > 0 /\ call.arg.pMin > call.arg.pMax) =>
            call.out = BadRequest(MsgBounds)
       /\ call.out.kind # "ok" => call.out.res = <<>>
  /\ FitCalled =>
       /\ NObs < 2 => call.out = BadRequest(MsgFewPoints)
       /\ (NObs >= 2 /\ AllPricesEqual) => call.out = BadRequest(MsgVariance)
       /\ call.out.kind \in {"ok", "BadRequest"}
       /\ call.out.kind # "ok" => call.out.res = <<>>
       /\ call.out.kind = "ok" =>
            /\ FLt(FZero, Res.beta)
            /\ Res.alpha = Res.intercept
            /\ Res.beta = FNeg(Res.slope)

\* C5: a domain rejection raised by the core is reported by the /optimize and
\* /fit handlers with a 4xx status, never a 5xx one.
C5_RejectionsAreClientErrors ==
  (resp.route \in {"/optimize", "/fit"} /\ call.out.kind = "BadRequest") =>
    (400 <= resp.status /\ resp.status < 500)

\* C6: observations (>= 2, at least two distinct prices) that lie exactly on
\* q = A - B*p with B > 0 give alpha = A, beta = B, intercept = A,
\* slope = -B and r2 = 1 (each within the floating tolerance).
C6_ExactOnLinearData == (FitCalled /\ OnDemandLine) => ExactFit

(* ------------------------- the symbolic model -------------------------- *)
Serving == pc \in {"idle", "received", "done"}
Called == call.op # "none"
NoClosedForm == Len(SYMS) = 1 /\ Model.p_star = <<>>

C10_ConstantQuantitiesReportZero ==
  (FitOk /\ NObs >= 2 /\ AllQuantitiesEqual /\ TwoPrices) => Res.r2 = FZero

====
